---- MODULE Spec2Model ----
(***************************************************************************)
(* Model of tools/nl_dump.py: the rtnetlink transport reassembler          *)
(* (Rtnlsock), the TLV attribute codec and walker (NlAttr) and the message *)
(* header parser (BaseNetlinkMessage and its subclasses).                  *)
(*                                                                         *)
(* Bytes are naturals 0..255, byte strings are sequences of bytes.         *)
(* struct "@HH" and ctypes structures use the host layout (little endian). *)
(***************************************************************************)
EXTENDS Integers, Sequences, FiniteSets, TLC

\* ------------------------------------------------------------------------
\* Bounds of the model
\* ------------------------------------------------------------------------
MaxMsgs == 3

MaxCalls == 5

MaxAttrs == 2

MaxPayload == 4

MaxSpin == 2

\* ------------------------------------------------------------------------
\* Byte-string helpers (python slicing, struct.unpack, ctypes)
\* ------------------------------------------------------------------------
Min(a, b) == IF a < b THEN a ELSE b

Max(a, b) == IF a > b THEN a ELSE b

\* python data[lo:hi] for 0 <= lo, 0 <= hi: indices are clamped to len(data)
Slice(s, lo, hi) == SubSeq(s, Min(lo, Len(s)) + 1, Min(hi, Len(s)))

\* python data[lo:]
SliceFrom(s, lo) == SubSeq(s, Min(lo, Len(s)) + 1, Len(s))

\* unsigned 16-bit little-endian field at 0-based offset i
U16(b, i) == b[i + 1] + 256 * b[i + 2]

\* unsigned 32-bit little-endian field at 0-based offset i
U32(b, i) == b[i + 1] + 256 * b[i + 2] + 65536 * b[i + 3] + 16777216 * b[i + 4]

\* struct.pack of one unsigned 16-bit value (value already in range)
P16(v) == <<v % 256, (v \div 256) % 256>>

\* ctypes c_uint field written to bytes
P32(v) == <<v % 256, (v \div 256) % 256, (v \div 65536) % 256, (v \div 16777216) % 256>>

RECURSIVE Concat(_)
Concat(ss) == IF ss = <<>> THEN <<>> ELSE Head(ss) \o Concat(Tail(ss))

\* bytes(n): n zero bytes
Zeros(n) == [i \in 1..n |-> 0]

\* ------------------------------------------------------------------------
\* Nlmsghdr, message classes, Rtnlsock.msg_map
\* ------------------------------------------------------------------------
SizeofNlmsghdr == 16

SizeofTcmsg == 20

SizeofActmsg == 4

NLMSG_DONE == 3

\* Nlmsghdr.from_buffer_copy(data): needs at least 16 bytes
Nlmsghdr(b) ==
    [nlmsg_len   |-> U32(b, 0),
     nlmsg_type  |-> U16(b, 4),
     nlmsg_flags |-> U16(b, 6),
     nlmsg_seq   |-> U32(b, 8),
     nlmsg_pid   |-> U32(b, 12)]

\* Rtnlsock.msg_map.get(nlmsg_type, BaseNetlinkMessage)
msg_map(t) ==
    IF t \in {44, 45, 46} THEN "TcNetlinkMessage"
    ELSE IF t \in {48, 49, 50} THEN "ActNetlinkMessage"
    ELSE "BaseNetlinkMessage"

\* a from_bytes that fills a short header with zero bytes
from_bytes_zero_filled(cls, data) ==
    [kind |-> "msg", cls |-> cls, orig_data |-> data,
     nl_hdr |-> Nlmsghdr(Slice(data \o Zeros(SizeofNlmsghdr), 0, SizeofNlmsghdr))]

\* BaseNetlinkMessage.from_bytes: from_buffer_copy(data[:16]) raises
\* ValueError when fewer than 16 bytes are given
from_bytes(cls, data) ==
    IF Len(Slice(data, 0, SizeofNlmsghdr)) < SizeofNlmsghdr
    THEN [kind |-> "ValueError"]
    ELSE [kind |-> "msg", cls |-> cls, orig_data |-> data,
          nl_hdr |-> Nlmsghdr(Slice(data, 0, SizeofNlmsghdr))]

\* a receive that puts the new bytes in front of the buffered ones
recv_prepend(buf, chunk) == chunk \o buf

\* read_data line 270: self._data += recv(...)
recv_append(buf, chunk) == buf \o chunk

\* a failed receive that empties the buffer
on_recv_error_reset(buf) == <<>>

\* read_data line 270 when recv raises: the += is not carried out and
\* self._data keeps its value
on_recv_error(buf) == buf

\* read_message line 280: raw_msg = self._data[: hdr.nlmsg_len]
raw_msg_of(buf, hdr) == Slice(buf, 0, hdr.nlmsg_len)

\* a cut that drops the header size instead of the declared length
rest_after_header(buf, hdr) == SliceFrom(buf, 16)

\* a cut that empties the buffer
rest_drop_all(buf, hdr) == <<>>

\* read_message line 281: self._data = self._data[hdr.nlmsg_len :]
rest_of(buf, hdr) == SliceFrom(buf, hdr.nlmsg_len)

\* a loop test that also asks for more when the message is exactly buffered
need_more_ge(buf, hdr) == hdr.nlmsg_len >= Len(buf)

\* read_message line 278: while hdr.nlmsg_len > len(self._data)
need_more(buf, hdr) == hdr.nlmsg_len > Len(buf)

\* read_message lines 282-283
dispatch(raw, hdr) == from_bytes(msg_map(hdr.nlmsg_type), raw)

\* a loop that appends before it tests for DONE
dump_step_append_first(ret_, m) ==
    [done |-> m.nl_hdr.nlmsg_type = 3, ret |-> Append(ret_, m)]

\* read_dump lines 289-291: break on the DONE type, else ret.append(msg)
dump_step(ret_, m) ==
    IF m.nl_hdr.nlmsg_type = NLMSG_DONE
    THEN [done |-> TRUE, ret |-> ret_]
    ELSE [done |-> FALSE, ret |-> Append(ret_, m)]

\* an entry test that also asks for more when exactly a header is buffered
need_header_le(buf) == Len(buf) <= SizeofNlmsghdr

\* read_message line 275: if len(self._data) < sizeof(Nlmsghdr)
need_header(buf) == Len(buf) < SizeofNlmsghdr

\* ------------------------------------------------------------------------
\* Streams the kernel may deliver
\* ------------------------------------------------------------------------
\* one wire message: declared length, message type, sequence number, payload
WireMsg(declared, type, seq, payload) ==
    P32(declared) \o P16(type) \o P16(0) \o P32(seq) \o P32(0) \o payload

\* kinds of message placed on the wire; "runt" declares less than a header
MsgKinds == {"tc", "done", "runt"}

KindMsg(k, seq) ==
    CASE k = "tc"   -> WireMsg(20, 44, seq, <<96 + seq, 0, 0, 0>>)
      [] k = "done" -> WireMsg(16, NLMSG_DONE, seq, <<>>)
      [] k = "runt" -> WireMsg(8, 16, seq, <<>>)

KindSeqs == UNION {[1..n -> MsgKinds] : n \in 0..MaxMsgs}

SentOf(ks) == [i \in 1..Len(ks) |-> KindMsg(ks[i], i)]

\* a wire message whose declared length is its real length (>= 16)
WellFormed(m) == Len(m) >= SizeofNlmsghdr /\ Nlmsghdr(m).nlmsg_len = Len(m)

\* ------------------------------------------------------------------------
\* roundup2 / align4 and the NlAttr codec
\* ------------------------------------------------------------------------
RECURSIVE BitOr(_, _)
BitOr(a, b) ==
    IF a = 0 THEN b
    ELSE IF b = 0 THEN a
    ELSE (IF a % 2 = 1 \/ b % 2 = 1 THEN 1 ELSE 0) + 2 * BitOr(a \div 2, b \div 2)

RECURSIVE BitAnd(_, _)
BitAnd(a, b) ==
    IF a = 0 \/ b = 0 THEN 0
    ELSE (IF a % 2 = 1 /\ b % 2 = 1 THEN 1 ELSE 0) + 2 * BitAnd(a \div 2, b \div 2)

\* a rounding that forgets the test for an already aligned value
roundup2_always(val, num) == BitOr(val, num - 1) + 1

\* roundup2, lines 17-21
roundup2(val, num) ==
    IF val % num # 0 THEN BitOr(val, num - 1) + 1 ELSE val

\* align4, lines 24-25
align4(val) == roundup2(val, 4)

\* NlAttr.__init__ with an integer type: an attribute object
NlAttr(nla_type, data) == [kind |-> "NlAttr", nla_type |-> nla_type, data |-> data]

\* a pack that keeps the low 16 bits of a value too large for the field
pack_HH_wrap(a, b) == [err |-> FALSE, bytes |-> P16(a % 65536) \o P16(b % 65536)]

\* struct.pack("@HH", a, b): raises struct.error outside 0..65535
pack_HH(a, b) ==
    IF a \in 0..65535 /\ b \in 0..65535
    THEN [err |-> FALSE, bytes |-> P16(a) \o P16(b)]
    ELSE [err |-> TRUE, bytes |-> <<>>]

\* NlAttr.__bytes__, lines 117-121
nla_bytes(a) ==
    LET n   == Len(a.data)
        pad == IF align4(n) # n THEN a.data \o Zeros(align4(n) - n) ELSE a.data
        h   == pack_HH(n + 4, a.nla_type)
    IN IF h.err THEN h ELSE [err |-> FALSE, bytes |-> h.bytes \o pad]

\* a length test that forgets the offset
attr_too_long_no_off(nla_len, off, data) == nla_len > Len(data)

\* line 85: if nla_len + off > len(data)
attr_too_long(nla_len, off, data) == nla_len + off > Len(data)

\* a lookup by the raw type, flag bits included
lookup_type_raw(raw_nla_type) == raw_nla_type

\* line 91: nla_type = raw_nla_type & 0x3FFF
lookup_type(raw_nla_type) == BitAnd(raw_nla_type, 16383)

\* line 94: v["ad"].cls.from_bytes(data[off : off + nla_len], v["ad"].val);
\* the decoder classes are not part of the file: the value is kept as the
\* arguments the decoder is given
decode_registered(data, off, nla_len, v) ==
    [kind |-> "decoded", raw |-> Slice(data, off, off + nla_len), ad |-> v.ad]

\* line 107: NlAttr(raw_nla_type, data[off + 4 : off + nla_len])
unknown_attr(data, off, nla_len, raw_nla_type) ==
    NlAttr(raw_nla_type, Slice(data, off + 4, off + nla_len))

\* lines 95-104: an entry with "child" makes the walk call
\* self.parse_child_array or self.parse_child; NlAttr defines neither, so
\* the attribute lookup raises AttributeError
nested_val(data, off, nla_len, v) == [kind |-> "AttributeError"]

\* lines 91-107: the value appended for the attribute at off
attr_val(data, off, nla_len, raw_nla_type, map) ==
    IF lookup_type(raw_nla_type) \in DOMAIN map
    THEN IF "child" \in DOMAIN map[lookup_type(raw_nla_type)]
         THEN nested_val(data, off, nla_len, map[lookup_type(raw_nla_type)])
         ELSE decode_registered(data, off, nla_len, map[lookup_type(raw_nla_type)])
    ELSE unknown_attr(data, off, nla_len, raw_nla_type)

\* an advance by the declared length, without alignment
next_off_unaligned(off, nla_len) == off + nla_len

\* line 109: off += align4(nla_len)
next_off(off, nla_len) == off + align4(nla_len)

\* an exit whose assert is not executed
nla_exit_no_assert(ret_, off, data) ==
    [status |-> "returned", nla_list |-> ret_]

\* lines 110-112: self.nla_list = ret; assert off == len(self._data)
nla_exit(ret_, off, data) ==
    [status |-> IF off = Len(data) THEN "returned" ELSE "AssertionError",
     nla_list |-> ret_]

\* a generic header of zero length
parse_hdr_base_empty(data) == [err |-> FALSE, data_hdr |-> [kind |-> "bytes", data |-> <<>>], hdr_off |-> 0]

\* BaseNetlinkMessage._parse_hdr, lines 137-138
parse_hdr_base(data) ==
    [err |-> FALSE, data_hdr |-> [kind |-> "bytes", data |-> data], hdr_off |-> Len(data)]

\* Tcmsg.from_buffer_copy, lines 199-208
Tcmsg(b) ==
    [kind |-> "Tcmsg", tcm_family |-> b[1], tcm__pad1 |-> b[2], tcm__pad2 |-> U16(b, 2),
     tcm_ifindex |-> U32(b, 4), tcm_handle |-> U32(b, 8), tcm_parent |-> U32(b, 12),
     tcm_info |-> U32(b, 16)]

\* Actmsg.from_buffer_copy, lines 224-229
Actmsg(b) ==
    [kind |-> "Actmsg", tca_family |-> b[1], tca__pad1 |-> b[2], tca__pad2 |-> U16(b, 2)]

NoDataHdr == [kind |-> "none"]

\* TcNetlinkMessage._parse_hdr, lines 217-221
parse_hdr_tc(data) ==
    IF Len(data) < SizeofTcmsg
    THEN [err |-> TRUE, data_hdr |-> NoDataHdr, hdr_off |-> 0]
    ELSE [err |-> FALSE, data_hdr |-> Tcmsg(data), hdr_off |-> SizeofTcmsg]

\* an action header parser that also rejects a body of exactly 4 bytes
parse_hdr_act_strict(data) ==
    IF Len(data) <= SizeofActmsg
    THEN [err |-> TRUE, data_hdr |-> NoDataHdr, hdr_off |-> 0]
    ELSE [err |-> FALSE, data_hdr |-> Actmsg(data), hdr_off |-> SizeofActmsg]

\* ActNetlinkMessage._parse_hdr, lines 238-242
parse_hdr_act(data) ==
    IF Len(data) < SizeofActmsg
    THEN [err |-> TRUE, data_hdr |-> NoDataHdr, hdr_off |-> 0]
    ELSE [err |-> FALSE, data_hdr |-> Actmsg(data), hdr_off |-> SizeofActmsg]

\* self._parse_hdr(...) by the class of the message
parse_hdr(cls, data) ==
    CASE cls = "TcNetlinkMessage"  -> parse_hdr_tc(data)
      [] cls = "ActNetlinkMessage" -> parse_hdr_act(data)
      [] OTHER                     -> parse_hdr_base(data)

\* nl_attr_map of the three message classes, lines 132, 215, 236
EmptyMap == [t \in {} |-> [ad |-> 0]]

nl_attr_map(cls) == EmptyMap

\* ------------------------------------------------------------------------
\* Attribute buffers and messages handed to the parser
\* ------------------------------------------------------------------------
\* registries passed to parse_nla_list: none, or type 1 with a decoder
AttrMaps == {EmptyMap, [t \in {1} |-> [ad |-> [cls |-> "scalar", val |-> 1]]]}

\* attribute types: registered (1), registered with flag bit 15 set (0x8001)
\* and unregistered with flag bit 15 set (0x8002)
AttrTypes == {1, 32769, 32770}

\* the payload of the i-th attribute: L bytes, all different
PayloadOf(i, L) == [j \in 1..L |-> 16 * i + j]

PairSeqs ==
    UNION {[1..n -> [type : AttrTypes, len : 0..MaxPayload]] : n \in 0..MaxAttrs}

\* padding bytes of an encoding overwritten with `fillbyte`
Repad(bytes, L, fillbyte) ==
    [j \in 1..Len(bytes) |-> IF j > 4 + L THEN fillbyte ELSE bytes[j]]

PadFills == {0, 255}

EncodeOne(pr, i, fillbyte) ==
    Repad(nla_bytes(NlAttr(pr.type, PayloadOf(i, pr.len))).bytes, pr.len, fillbyte)

Encode(prs, fillbyte) == Concat([i \in 1..Len(prs) |-> EncodeOne(prs[i], i, fillbyte)])

\* arbitrary attribute material: a header declaring `len` and k more bytes
RawLens == {0, 3, 4, 5, 8, 20}

RawBodies == {0, 1, 2, 4, 6}

RawTLV(len, k) == P16(len) \o P16(1) \o [j \in 1..k |-> 32 + j]

RawSeqs ==
    UNION {[1..n -> [len : RawLens, k : RawBodies]] : n \in 0..MaxAttrs}

RawBuffer(ts) == Concat([i \in 1..Len(ts) |-> RawTLV(ts[i].len, ts[i].k)])

\* registries with a nested entry: type 1 holds children decoded with a
\* registry that maps type 1 to a string, as an array or as one tree
ChildMap == [t \in {1} |-> [ad |-> [cls |-> "string", val |-> 1]]]

NestedArrayMap ==
    [t \in {1} |-> [ad |-> [cls |-> "nested", val |-> 1], child |-> ChildMap,
                    is_array |-> TRUE]]

NestedMap ==
    [t \in {1} |-> [ad |-> [cls |-> "nested", val |-> 1], child |-> ChildMap]]

\* b"foo" and b"bar"
Foo == <<102, 111, 111>>

Bar == <<98, 97, 114>>

StringSeqs == UNION {[1..n -> {Foo, Bar}] : n \in 1..MaxAttrs}

\* a type-1 attribute whose payload is one sibling per string, the i-th
\* sibling of type i wrapping a type-1 attribute that holds the string
NestedBuffer(strs) ==
    nla_bytes(NlAttr(1,
        Concat([i \in 1..Len(strs) |->
                  nla_bytes(NlAttr(i, nla_bytes(NlAttr(1, strs[i])).bytes)).bytes])
    )).bytes

\* payload lengths on both sides of 65531, the largest that fits
BigLens == 65529..65534

\* what the caller of bytes() sees: struct.error, or the bytes, kept as
\* their count and their two header fields
bytes_outcome(b) ==
    IF b.err THEN [kind |-> "struct.error", size |-> 0]
    ELSE [kind |-> "bytes", size |-> Len(b.bytes), nla_len |-> U16(b.bytes, 0),
          nla_type |-> U16(b.bytes, 2)]

\* messages given to parse(): a netlink header of some type, a run of zero
\* bytes standing where a fixed header would be, then encoded attributes
MsgTypes == {16, 44, 48}

MsgFixedLens == {0, 2, 4, 20}

MsgPairSeqs ==
    UNION {[1..n -> [type : {1, 16385}, len : {0, 3}]] : n \in 0..MaxAttrs}

MsgBytes(type, fixed, prs) ==
    WireMsg(16 + fixed + Len(Encode(prs, 0)), type, 1, Zeros(fixed) \o Encode(prs, 0))
\* ------------------------------------------------------------------------
\* State
\* ------------------------------------------------------------------------
VARIABLES
    stream,        \* every byte the kernel will put in the receive queue
    sent,          \* the wire messages the stream was built from
    rcvd,          \* number of bytes of the stream handed out by recv so far
    sock_data,     \* Rtnlsock._data, the accumulation buffer
    pc,            \* position of the caller inside read_message / read_dump
    mode,          \* "message": read_message called directly, "dump": by read_dump
    hdr,           \* local hdr of read_message (line 277)
    ret,           \* local ret of read_dump (line 286)
    msg,           \* local msg of read_dump (line 288)
    result,        \* what the last finished call gave the caller
    extracted,     \* history: every raw_msg sliced at line 280, in order
    out,           \* history: outcome of every read_message that sliced
    recvs,         \* history: recv calls made by the current read_message,
                   \* counted 0, 1, 2 (2 stands for two or more)
    had_complete,  \* history: buffer held a complete message at its entry
    dump_from,     \* history: Len(out) when the current read_dump was called
    retrying,      \* history: this is a read_message call and the call
                   \* before it ended in a failed receive
    origin,        \* what is being parsed: "enc", "raw", "msg" ("none": nothing)
    pairs,         \* the (type, payload length) pairs an "enc" buffer encodes
    padfill,       \* the byte found in the padding of an "enc" buffer
    attr_map,      \* the attr_map argument of parse_nla_list
    nla_data,      \* NlAttr._data of the attribute being walked
    nla_list,      \* NlAttr.nla_list of that attribute
    p_off,         \* local off of parse_nla_list
    p_ret,         \* local ret of parse_nla_list
    p_offs,        \* history: the offset at which each element of ret was read
    spins,         \* history: iterations in a row that left off unchanged
    ppc,           \* parse_nla_list: "init", "loop", "returned" or the error raised
    m_obj,         \* the message object parse() is called on
    data_hdr,      \* its data_hdr attribute (NoDataHdr: not set)
    hdr_off,       \* local hdr_off of parse()
    root,          \* its root attribute (NoMsg: not set)
    mpc,           \* parse(): "init", "l145", "returned" or the error raised
    enc_out        \* what bytes(attribute) gave: its size and header fields,
                   \* or the error raised (NoMsg: not called)

sockvars == <<stream, sent, rcvd, sock_data, pc, mode, hdr, ret, msg, result,
              extracted, out, recvs, had_complete, dump_from, retrying>>

attrvars == <<origin, pairs, padfill, attr_map, nla_data, nla_list, p_off, p_ret,
              p_offs, spins, ppc, m_obj, data_hdr, hdr_off, root, mpc, enc_out>>

vars == <<sockvars, attrvars>>

NoHdr == Nlmsghdr(Zeros(SizeofNlmsghdr))

NoMsg == [kind |-> "none"]

\* the buffer starts with a complete message
HoldsComplete(buf) ==
    /\ Len(buf) >= SizeofNlmsghdr
    /\ Nlmsghdr(buf).nlmsg_len <= Len(buf)

\* no attribute and no message under parse
AttrIdle ==
    /\ origin = "none"
    /\ pairs = <<>>
    /\ padfill = 0
    /\ attr_map = EmptyMap
    /\ nla_data = <<>>
    /\ nla_list = <<>>
    /\ p_off = 0
    /\ p_ret = <<>>
    /\ p_offs = <<>>
    /\ spins = 0
    /\ ppc = "init"
    /\ m_obj = NoMsg
    /\ data_hdr = NoDataHdr
    /\ hdr_off = 0
    /\ root = NoMsg
    /\ mpc = "init"
    /\ enc_out = NoMsg

\* Rtnlsock.__init__: self._data = bytes()
SockInit ==
    /\ sent \in {SentOf(ks) : ks \in KindSeqs}
    /\ stream = Concat(sent)
    /\ rcvd = 0
    /\ sock_data = <<>>
    /\ pc = "idle"
    /\ mode = "message"
    /\ hdr = NoHdr
    /\ ret = <<>>
    /\ msg = NoMsg
    /\ result = NoMsg
    /\ extracted = <<>>
    /\ out = <<>>
    /\ recvs = 0
    /\ had_complete = FALSE
    /\ dump_from = 0
    /\ retrying = FALSE

\* ------------------------------------------------------------------------
\* Rtnlsock.read_message / read_data / read_dump, one action per step
\* ------------------------------------------------------------------------
\* the caller invokes read_message()
Call_read_message ==
    /\ pc = "idle"
    /\ Len(out) < MaxCalls
    /\ pc' = "l275"
    /\ mode' = "message"
    /\ result' = NoMsg
    /\ recvs' = 0
    /\ had_complete' = HoldsComplete(sock_data)
    /\ retrying' = (result.kind = "TransportError")
    /\ UNCHANGED attrvars
    /\ UNCHANGED <<stream, sent, rcvd, sock_data, hdr, ret, msg, extracted, out,
                   dump_from>>

\* the caller invokes read_dump(): ret = [] and the first read_message()
Call_read_dump ==
    /\ pc = "idle"
    /\ Len(out) < MaxCalls
    /\ pc' = "l275"
    /\ mode' = "dump"
    /\ ret' = <<>>
    /\ msg' = NoMsg
    /\ result' = NoMsg
    /\ recvs' = 0
    /\ had_complete' = HoldsComplete(sock_data)
    /\ dump_from' = Len(out)
    /\ retrying' = FALSE
    /\ UNCHANGED attrvars
    /\ UNCHANGED <<stream, sent, rcvd, sock_data, hdr, extracted, out>>

\* lines 275-277: read_data() when the header is incomplete, else parse it
RM_Entry ==
    /\ pc = "l275"
    /\ IF need_header(sock_data)
       THEN pc' = "l270h" /\ hdr' = hdr
       ELSE pc' = "l278" /\ hdr' = Nlmsghdr(sock_data)
    /\ UNCHANGED attrvars
    /\ UNCHANGED <<stream, sent, rcvd, sock_data, mode, ret, msg, result,
                   extracted, out, recvs, had_complete, dump_from, retrying>>

\* read_data called from line 276: one recv, loop until 16 bytes are held,
\* then line 277 parses the header
RD_RecvHeader ==
    /\ pc = "l270h"
    /\ \E n \in 1..(Len(stream) - rcvd) :
         LET buf == recv_append(sock_data, SubSeq(stream, rcvd + 1, rcvd + n)) IN
           /\ sock_data' = buf
           /\ rcvd' = rcvd + n
           /\ IF Len(buf) >= SizeofNlmsghdr
              THEN pc' = "l278" /\ hdr' = Nlmsghdr(buf)
              ELSE pc' = "l270h" /\ hdr' = hdr
    /\ recvs' = Min(recvs + 1, 2)
    /\ UNCHANGED attrvars
    /\ UNCHANGED <<stream, sent, mode, ret, msg, result, extracted, out,
                   had_complete, dump_from, retrying>>

\* line 278: while hdr.nlmsg_len > len(self._data)
RM_While ==
    /\ pc = "l278"
    /\ pc' = IF need_more(sock_data, hdr) THEN "l270b" ELSE "l280"
    /\ UNCHANGED attrvars
    /\ UNCHANGED <<stream, sent, rcvd, sock_data, mode, hdr, ret, msg, result,
                   extracted, out, recvs, had_complete, dump_from, retrying>>

\* read_data called from line 279: the buffer already holds 16 bytes, so
\* the loop of read_data ends after one recv
RD_RecvBody ==
    /\ pc = "l270b"
    /\ \E n \in 1..(Len(stream) - rcvd) :
         /\ sock_data' = recv_append(sock_data, SubSeq(stream, rcvd + 1, rcvd + n))
         /\ rcvd' = rcvd + n
    /\ pc' = "l278"
    /\ recvs' = Min(recvs + 1, 2)
    /\ UNCHANGED attrvars
    /\ UNCHANGED <<stream, sent, mode, hdr, ret, msg, result, extracted, out,
                   had_complete, dump_from, retrying>>

\* recv raises (timeout, closed socket): the exception leaves read_data,
\* read_message and read_dump; the locals of the calls are gone
RD_RecvFail ==
    /\ pc \in {"l270h", "l270b"}
    /\ pc' = "idle"
    /\ result' = [kind |-> "TransportError"]
    /\ sock_data' = on_recv_error(sock_data)
    /\ hdr' = NoHdr /\ ret' = <<>> /\ msg' = NoMsg
    /\ UNCHANGED attrvars
    /\ UNCHANGED <<stream, sent, rcvd, mode, extracted, out, recvs,
                   had_complete, dump_from, retrying>>

\* lines 280-283: slice the message, drop it from the buffer, build the
\* object; from_bytes may raise after the buffer was already cut
RM_Extract ==
    /\ pc = "l280"
    /\ LET raw == raw_msg_of(sock_data, hdr)
           m   == dispatch(raw, hdr)
       IN
         /\ sock_data' = rest_of(sock_data, hdr)
         /\ extracted' = Append(extracted, raw)
         /\ out' = Append(out, m)
         /\ IF m.kind = "ValueError" \/ mode = "message"
            THEN pc' = "idle" /\ result' = m /\ msg' = NoMsg /\ ret' = <<>>
            ELSE pc' = "l289" /\ result' = result /\ msg' = m /\ ret' = ret
    /\ hdr' = NoHdr
    /\ UNCHANGED attrvars
    /\ UNCHANGED <<stream, sent, rcvd, mode, recvs, had_complete, dump_from, retrying>>

\* lines 289-292 and the next turn of the loop at line 288
Dump_Test ==
    /\ pc = "l289"
    /\ LET s == dump_step(ret, msg) IN
         IF s.done
         THEN /\ pc' = "idle"
              /\ result' = [kind |-> "dump", msgs |-> s.ret]
              /\ ret' = <<>>
              /\ UNCHANGED <<recvs, had_complete>>
         ELSE /\ pc' = "l275"
              /\ result' = result
              /\ ret' = s.ret
              /\ recvs' = 0
              /\ had_complete' = HoldsComplete(sock_data)
    /\ msg' = NoMsg
    /\ UNCHANGED attrvars
    /\ UNCHANGED <<stream, sent, rcvd, sock_data, mode, hdr, extracted, out,
                   dump_from, retrying>>

Next ==
    \/ Call_read_message
    \/ Call_read_dump
    \/ RM_Entry
    \/ RD_RecvHeader
    \/ RM_While
    \/ RD_RecvBody
    \/ RD_RecvFail
    \/ RM_Extract
    \/ Dump_Test

Init == SockInit /\ AttrIdle

Spec == Init /\ [][Next]_vars

\* read_message on a transport whose receives never fail: every statement
\* reached is executed, and a blocking recv returns as long as the kernel
\* still has bytes of the stream to hand out.
NextLive ==
    \/ Call_read_message
    \/ RM_Entry
    \/ RD_RecvHeader
    \/ RM_While
    \/ RD_RecvBody
    \/ RM_Extract

\* the steps of a call exclude one another by pc, so the fairness of their
\* disjunction is the fairness of each
Fairness ==
    WF_vars(RM_Entry \/ RD_RecvHeader \/ RM_While \/ RD_RecvBody \/ RM_Extract)

SpecLive == Init /\ [][NextLive]_vars /\ Fairness

\* ------------------------------------------------------------------------
\* NlAttr.parse_nla_list and BaseNetlinkMessage.parse, one action per step
\* ------------------------------------------------------------------------
\* a socket that is not used while attributes are parsed
SockIdle ==
    /\ sent = <<>>
    /\ stream = <<>>
    /\ rcvd = 0
    /\ sock_data = <<>>
    /\ pc = "idle"
    /\ mode = "message"
    /\ hdr = NoHdr
    /\ ret = <<>>
    /\ msg = NoMsg
    /\ result = NoMsg
    /\ extracted = <<>>
    /\ out = <<>>
    /\ recvs = 0
    /\ had_complete = FALSE
    /\ dump_from = 0
    /\ retrying = FALSE

\* NlAttr.__init__ (nla_list = []) on an encoded or an arbitrary buffer, or a
\* message object as read_message builds it
AttrInit ==
    /\ \/ /\ origin = "enc"
          /\ pairs \in PairSeqs
          /\ padfill \in PadFills
          /\ attr_map \in AttrMaps
          /\ nla_data = Encode(pairs, padfill)
          /\ m_obj = NoMsg
       \/ /\ origin = "raw"
          /\ pairs = <<>>
          /\ padfill = 0
          /\ attr_map \in AttrMaps
          /\ nla_data \in {RawBuffer(ts) : ts \in RawSeqs}
          /\ m_obj = NoMsg
       \/ /\ origin = "nested"
          /\ pairs = <<>>
          /\ padfill = 0
          /\ attr_map \in {NestedArrayMap, NestedMap}
          /\ nla_data \in {NestedBuffer(strs) : strs \in StringSeqs}
          /\ m_obj = NoMsg
       \/ /\ origin = "big"
          /\ pairs \in {<<[type |-> t, len |-> L]>> : t \in AttrTypes, L \in BigLens}
          /\ padfill = 0
          /\ attr_map = EmptyMap
          /\ nla_data = <<>>
          /\ m_obj = NoMsg
       \/ /\ origin = "msg"
          /\ pairs \in MsgPairSeqs
          /\ padfill = 0
          /\ attr_map = EmptyMap
          /\ nla_data = <<>>
          /\ \E t \in MsgTypes, f \in MsgFixedLens :
               m_obj = dispatch(MsgBytes(t, f, pairs), Nlmsghdr(MsgBytes(t, f, pairs)))
    /\ nla_list = <<>>
    /\ p_off = 0
    /\ p_ret = <<>>
    /\ p_offs = <<>>
    /\ spins = 0
    /\ ppc = "init"
    /\ data_hdr = NoDataHdr
    /\ hdr_off = 0
    /\ root = NoMsg
    /\ mpc = "init"
    /\ enc_out = NoMsg

\* lines 117-121: bytes(NlAttr(type, payload)) on a payload of zero bytes
\* whose length is next to the largest the length field can carry; the
\* state keeps the size and the header of the bytes produced
Bytes_Call ==
    /\ origin = "big"
    /\ enc_out = NoMsg
    /\ enc_out' = bytes_outcome(nla_bytes(NlAttr(pairs[1].type, Zeros(pairs[1].len))))
    /\ UNCHANGED <<origin, pairs, padfill, attr_map, nla_data, nla_list, p_off, p_ret,
                   p_offs, spins, ppc, m_obj, data_hdr, hdr_off, root, mpc>>
    /\ UNCHANGED sockvars

\* lines 80-82: the caller invokes parse_nla_list(attr_map)
NLA_Call ==
    /\ origin \in {"enc", "raw", "nested"}
    /\ ppc = "init"
    /\ ppc' = "loop"
    /\ p_off' = 0
    /\ p_ret' = <<>>
    /\ p_offs' = <<>>
    /\ spins' = 0
    /\ UNCHANGED <<enc_out, origin, pairs, padfill, attr_map, nla_data, nla_list, m_obj,
                   data_hdr, hdr_off, root, mpc>>
    /\ UNCHANGED sockvars

\* lines 83-109: one turn of the while loop
NLA_Step ==
    /\ ppc = "loop"
    /\ Len(nla_data) - p_off >= 4
    /\ LET nla_len      == U16(nla_data, p_off)
           raw_nla_type == U16(nla_data, p_off + 2)
       IN IF attr_too_long(nla_len, p_off, nla_data)
          THEN /\ ppc' = "ValueError"
               /\ UNCHANGED <<p_off, p_ret, p_offs, spins>>
          ELSE IF attr_val(nla_data, p_off, nla_len, raw_nla_type, attr_map).kind
                    = "AttributeError"
          THEN /\ ppc' = "AttributeError"
               /\ UNCHANGED <<p_off, p_ret, p_offs, spins>>
          ELSE /\ next_off(p_off, nla_len) = p_off => spins < MaxSpin
               /\ ppc' = "loop"
               /\ p_ret' = Append(p_ret, attr_val(nla_data, p_off, nla_len,
                                                  raw_nla_type, attr_map))
               /\ p_offs' = Append(p_offs, p_off)
               /\ p_off' = next_off(p_off, nla_len)
               /\ spins' = IF next_off(p_off, nla_len) = p_off THEN spins + 1 ELSE 0
    /\ UNCHANGED <<enc_out, origin, pairs, padfill, attr_map, nla_data, nla_list, m_obj,
                   data_hdr, hdr_off, root, mpc>>
    /\ UNCHANGED sockvars

\* lines 110-112: the loop has ended
NLA_Exit ==
    /\ ppc = "loop"
    /\ Len(nla_data) - p_off < 4
    /\ LET x == nla_exit(p_ret, p_off, nla_data) IN
         /\ nla_list' = x.nla_list
         /\ ppc' = x.status
    /\ UNCHANGED <<enc_out, origin, pairs, padfill, attr_map, nla_data, p_off, p_ret, p_offs,
                   spins, m_obj, data_hdr, hdr_off, root, mpc>>
    /\ UNCHANGED sockvars

\* lines 141-145: parse() up to the call of fake_nla.parse_nla_list
MSG_Parse ==
    /\ origin = "msg"
    /\ mpc = "init"
    /\ LET h == parse_hdr(m_obj.cls, SliceFrom(m_obj.orig_data, 16)) IN
         IF h.err
         THEN /\ mpc' = "ValueError"
              /\ UNCHANGED <<data_hdr, hdr_off, nla_data, attr_map, ppc>>
         ELSE /\ data_hdr' = h.data_hdr
              /\ hdr_off' = h.hdr_off
              /\ IF Len(m_obj.orig_data) > 16 + h.hdr_off
                 THEN /\ nla_data' = SliceFrom(m_obj.orig_data, 16 + h.hdr_off)
                      /\ attr_map' = nl_attr_map(m_obj.cls)
                      /\ ppc' = "loop"
                      /\ mpc' = "l145"
                 ELSE /\ mpc' = "returned"
                      /\ UNCHANGED <<nla_data, attr_map, ppc>>
    /\ UNCHANGED <<enc_out, origin, pairs, padfill, nla_list, p_off, p_ret, p_offs, spins,
                   m_obj, root>>
    /\ UNCHANGED sockvars

\* line 146: parse_nla_list is over; self.root = fake_nla unless it raised
MSG_Root ==
    /\ origin = "msg"
    /\ mpc = "l145"
    /\ ppc \notin {"init", "loop"}
    /\ IF ppc = "returned"
       THEN /\ root' = [kind |-> "NlAttr", nla_type |-> 0, data |-> nla_data,
                        nla_list |-> nla_list]
            /\ mpc' = "returned"
       ELSE /\ root' = root
            /\ mpc' = ppc
    /\ UNCHANGED <<enc_out, origin, pairs, padfill, attr_map, nla_data, nla_list, p_off, p_ret,
                   p_offs, spins, ppc, m_obj, data_hdr, hdr_off>>
    /\ UNCHANGED sockvars

NextAttr ==
    \/ Bytes_Call
    \/ NLA_Call
    \/ NLA_Step
    \/ NLA_Exit
    \/ MSG_Parse
    \/ MSG_Root

InitAttr == SockIdle /\ AttrInit

SpecAttr == InitAttr /\ [][NextAttr]_vars

\* ------------------------------------------------------------------------
\* Properties of the transport reassembler (checked under Spec)
\* ------------------------------------------------------------------------
AllWellFormed == \A i \in 1..Len(sent) : WellFormed(sent[i])

TypeOfWire(m) == Nlmsghdr(m).nlmsg_type

\* The results of successive read_message calls on a socket whose buffer
\* received the whole stream in one receive, for at most `calls` calls.
RECURSIVE OneReceive(_, _)
OneReceive(buf, calls) ==
    IF calls = 0 \/ need_header(buf) THEN <<>>
    ELSE LET h == Nlmsghdr(buf) IN
         IF need_more(buf, h) THEN <<>>
         ELSE <<dispatch(raw_msg_of(buf, h), h)>>
              \o OneReceive(rest_of(buf, h), calls - 1)

\* C1: when read_dump returns on a stream of well-formed messages, it
\* returns exactly the messages that stood between the point where the dump
\* started and the first DONE (type 3) message after it, in stream order;
\* the DONE message is consumed but is not part of the returned list.
C1_DumpTermination ==
    (pc = "idle" /\ result.kind = "dump" /\ AllWellFormed) =>
        \E k \in (dump_from + 1)..Len(sent) :
            /\ TypeOfWire(sent[k]) = NLMSG_DONE
            /\ \A j \in (dump_from + 1)..(k - 1) : TypeOfWire(sent[j]) # NLMSG_DONE
            /\ Len(out) = k
            /\ Len(result.msgs) = k - 1 - dump_from
            /\ \A j \in 1..Len(result.msgs) :
                 /\ result.msgs[j].kind = "msg"
                 /\ result.msgs[j].orig_data = sent[dump_from + j]
                 /\ result.msgs[j].nl_hdr.nlmsg_type # NLMSG_DONE

\* C1 witness: a dump of N = 2 ordinary messages and the DONE has returned.
C1_Witness ==
    /\ pc = "idle" /\ result.kind = "dump" /\ AllWellFormed
    /\ Len(result.msgs) = 2
    /\ dump_from = 0

\* C2: the outcomes of the read_message calls made so far are the outcomes
\* the same calls give when the whole stream arrives in a single receive:
\* they depend on the concatenated bytes only, not on the cuts.
C2_CutIndependence == out = OneReceive(stream, Len(out))

\* C2 witness: the first message of the stream was returned after it had
\* arrived in two or more receives that carried nothing but that message.
C2_Witness ==
    /\ pc = "idle" /\ result.kind = "msg" /\ mode = "message"
    /\ Len(out) = 1 /\ recvs = 2
    /\ rcvd = Len(result.orig_data)
    /\ result.orig_data = sent[1]

\* C3: the slices cut so far, in order, followed by the buffer, are the
\* bytes received so far; every slice has the length its header declares.
C3_BufferConservation ==
    /\ Concat(extracted) \o sock_data = SubSeq(stream, 1, rcvd)
    /\ \A i \in 1..Len(extracted) :
         Len(extracted[i]) >= 4 => U32(extracted[i], 0) = Len(extracted[i])

\* C3 witness: two messages were cut and received bytes are still buffered.
C3_Witness ==
    /\ Len(extracted) = 2
    /\ sock_data # <<>>
    /\ rcvd < Len(stream)

\* C4: a read_message that finds a complete message in the buffer performs
\* no receive, and on a stream of well-formed messages the i-th slice cut
\* is the i-th message of the stream, whole and alone.
C4_ArrivalOrder ==
    /\ had_complete => recvs = 0
    /\ AllWellFormed =>
         /\ Len(out) <= Len(sent)
         /\ \A i \in 1..Len(out) :
              /\ extracted[i] = sent[i]
              /\ out[i].kind = "msg"
              /\ out[i].orig_data = sent[i]

\* C4 witness: the second of two read_message calls returned the second
\* message without a receive, both messages having come in earlier.
C4_Witness ==
    /\ pc = "idle" /\ result.kind = "msg" /\ mode = "message"
    /\ AllWellFormed
    /\ Len(out) = 2 /\ had_complete /\ recvs = 0
    /\ result.orig_data = sent[2]

\* ------------------------------------------------------------------------
\* Properties of the attribute walker and codec (checked under SpecAttr)
\* ------------------------------------------------------------------------
\* the bytes [o + 4, o + l) of the buffer under parse
PayloadAt(o, l) == [j \in 1..Max(l - 4, 0) |-> nla_data[o + 4 + j]]

\* the bytes [o, o + l) of the buffer under parse
BytesAt(o, l) == [j \in 1..l |-> nla_data[o + j]]

SmallestMult4(n) == CHOOSE x \in n..(n + 3) : x % 4 = 0

\* payload lengths next to the largest one the length field can carry
BoundaryLens == {65528, 65529, 65530, 65531}

\* where the encoding of the first k pairs ends
RECURSIVE EncEnd(_)
EncEnd(k) == IF k = 0 THEN 0 ELSE EncEnd(k - 1) + SmallestMult4(pairs[k].len + 4)

\* type and payload carried by an element of nla_list
ElemType(v) == IF v.kind = "NlAttr" THEN v.nla_type ELSE U16(v.raw, 2)

ElemPayload(v) == IF v.kind = "NlAttr" THEN v.data ELSE SliceFrom(v.raw, 4)

\* C5: every attribute the walk has stored lies inside the buffer and holds
\* exactly the bytes its header declares; the walk ends with ValueError
\* exactly at a header whose nla_len exceeds the bytes remaining, and then
\* no attribute list is stored; at such a header no other step is possible,
\* and the walk only ends normally with fewer than 4 bytes left.
C5_BoundsRejection ==
    /\ Len(p_offs) = Len(p_ret)
    /\ \A i \in 1..Len(p_ret) :
         LET o == p_offs[i]
             l == U16(nla_data, o)
         IN /\ o + l <= Len(nla_data)
            /\ p_ret[i].kind = "NlAttr" => p_ret[i].data = PayloadAt(o, l)
            /\ p_ret[i].kind = "decoded" => p_ret[i].raw = BytesAt(o, l)
    /\ ppc = "ValueError" =>
         /\ Len(nla_data) - p_off >= 4
         /\ U16(nla_data, p_off) > Len(nla_data) - p_off
         /\ nla_list = <<>>
         /\ root = NoMsg
    /\ (ppc = "loop" /\ Len(nla_data) - p_off >= 4
        /\ U16(nla_data, p_off) > Len(nla_data) - p_off) =>
         ~ENABLED (NLA_Step /\ ppc' # "ValueError")
    /\ ppc \in {"returned", "AssertionError"} => Len(nla_data) - p_off < 4

\* C5 witness: nla_len 20 was met with 10 bytes remaining, after one
\* attribute had been walked, and the call failed.
C5_Witness ==
    /\ ppc = "ValueError"
    /\ U16(nla_data, p_off) = 20
    /\ Len(nla_data) - p_off = 10
    /\ Len(p_ret) = 1

\* C6: an encoded attribute carries the length field L + 4 and is as long as
\* the smallest multiple of 4 that is >= L + 4 (also for L next to 65531),
\* and the walk moves over each encoded attribute by that many bytes,
\* whatever its padding bytes hold.
C6_Padding ==
    /\ \A L \in (0..MaxPayload) \cup BoundaryLens :
         /\ align4(L + 4) = SmallestMult4(L + 4)
         /\ 4 + align4(L) = SmallestMult4(L + 4)
    /\ origin = "enc" =>
         /\ \A i \in 1..Len(pairs) :
              LET b == nla_bytes(NlAttr(pairs[i].type, PayloadOf(i, pairs[i].len))) IN
                /\ ~b.err
                /\ U16(b.bytes, 0) = pairs[i].len + 4
                /\ Len(b.bytes) = SmallestMult4(pairs[i].len + 4)
         /\ \A i \in 1..Len(p_offs) : p_offs[i] = EncEnd(i - 1)
         /\ p_off = EncEnd(Len(p_ret))

\* C6 witness: two attributes, the first with a 1-byte payload and three
\* padding bytes of value 255, were walked to the end of the buffer.
C6_Witness ==
    /\ origin = "enc" /\ ppc = "returned"
    /\ padfill = 255
    /\ Len(pairs) = 2 /\ pairs[1].len = 1
    /\ Len(p_ret) = 2
    /\ p_off = Len(nla_data)

\* C7: parsing the concatenated encodings of a sequence of (type, payload)
\* pairs returns a list of the same length whose i-th element carries the
\* i-th type and the i-th payload.
C7_RoundTrip ==
    (origin = "enc" /\ ppc \notin {"init", "loop"}) =>
        /\ ppc = "returned"
        /\ Len(nla_list) = Len(pairs)
        /\ \A i \in 1..Len(pairs) :
             /\ ElemType(nla_list[i]) = pairs[i].type
             /\ ElemPayload(nla_list[i]) = PayloadOf(i, pairs[i].len)

\* C7 witness: two attributes of the same unregistered type, the first with
\* a payload that needs padding, were encoded by __bytes__ and parsed back.
C7_Witness ==
    /\ origin = "enc" /\ ppc = "returned"
    /\ padfill = 0 /\ attr_map = EmptyMap
    /\ Len(pairs) = 2
    /\ pairs[1].type = pairs[2].type
    /\ pairs[1].len = 3
    /\ Len(nla_list) = 2

\* C8: an attribute is looked up by the low 14 bits of its type; when those
\* have no entry it is stored as an NlAttr with the raw type and exactly the
\* bytes [off + 4, off + nla_len), and when they have one it is decoded.
C8_UnknownPreserved ==
    \A i \in 1..Len(p_ret) :
        LET o   == p_offs[i]
            l   == U16(nla_data, o)
            raw == U16(nla_data, o + 2)
        IN IF (raw % 16384) \in DOMAIN attr_map
           THEN p_ret[i].kind = "decoded"
           ELSE p_ret[i] = NlAttr(raw, PayloadAt(o, l))

\* C8 witness: with type 1 registered, type 0x8001 was decoded through the
\* entry of type 1 and type 0x8002 was stored with its raw type and a
\* payload that is followed by padding.
C8_Witness ==
    /\ ppc = "returned" /\ attr_map # EmptyMap
    /\ Len(p_ret) = 2
    /\ p_ret[1].kind = "decoded" /\ U16(p_ret[1].raw, 2) = 32769
    /\ p_ret[2].kind = "NlAttr" /\ p_ret[2].nla_type = 32770
    /\ Len(p_ret[2].data) = 3

\* C9: when the walk is over and 1 to 3 bytes of the buffer are unconsumed,
\* the call has failed (AssertionError) and nla_list holds the attributes
\* decoded before the leftover bytes.
C9_TrailingGarbage ==
    (ppc \notin {"init", "loop"} /\ Len(nla_data) - p_off \in 1..3) =>
        /\ ppc = "AssertionError"
        /\ nla_list = p_ret
        /\ Len(nla_list) = Len(p_offs)

\* C9 witness: two attributes were decoded, 2 bytes were left, the call failed.
C9_Witness ==
    /\ ppc = "AssertionError"
    /\ Len(nla_data) - p_off = 2
    /\ Len(nla_list) = 2

\* ------------------------------------------------------------------------
\* Properties of the message header parser (checked under SpecAttr)
\* ------------------------------------------------------------------------
DispatcherTypes == {44, 45, 46, 48, 49, 50}

\* C10 as stated: when parse() returns on a message whose type is not in the
\* dispatcher table and that has bytes after the netlink header, the
\* type-specific header has length 0 and the root holds the TLVs of those
\* bytes as opaque attributes.
C10_AsStated ==
    (origin = "msg" /\ mpc = "returned"
     /\ m_obj.nl_hdr.nlmsg_type \notin DispatcherTypes
     /\ Len(m_obj.orig_data) > 16) =>
        /\ hdr_off = 0
        /\ root.kind = "NlAttr"
        /\ root.data = SliceFrom(m_obj.orig_data, 16)
        /\ \A i \in 1..Len(root.nla_list) : root.nla_list[i].kind = "NlAttr"

\* C10 amended: a message whose type is not in the dispatcher table is a
\* BaseNetlinkMessage; parse() on it never fails, keeps all bytes after the
\* 16-byte netlink header as data_hdr (hdr_off is their count), never calls
\* parse_nla_list and never sets root.
C10_GenericMessage ==
    origin = "msg" =>
        /\ (m_obj.cls = "BaseNetlinkMessage")
             = (m_obj.nl_hdr.nlmsg_type \notin DispatcherTypes)
        /\ (m_obj.cls = "BaseNetlinkMessage" /\ mpc # "init") =>
             /\ mpc = "returned"
             /\ data_hdr = [kind |-> "bytes", data |-> SliceFrom(m_obj.orig_data, 16)]
             /\ hdr_off = Len(m_obj.orig_data) - 16
             /\ root = NoMsg
             /\ ppc = "init"
             /\ nla_list = <<>>

\* C10 witness: parse() returned on a message of type 16 that carries two
\* encoded attributes right after the netlink header.
C10_Witness ==
    /\ origin = "msg" /\ mpc = "returned"
    /\ m_obj.nl_hdr.nlmsg_type = 16
    /\ Len(pairs) = 2
    /\ Len(m_obj.orig_data) = 16 + Len(Encode(pairs, 0))

\* ------------------------------------------------------------------------
\* Typed messages (checked under SpecAttr)
\* ------------------------------------------------------------------------
\* sizeof of the fixed header a message class decodes
FixedHeaderSize(cls) ==
    IF cls = "TcNetlinkMessage" THEN SizeofTcmsg ELSE SizeofActmsg

\* C11: types 44, 45, 46 select the TC parser (20-byte Tcmsg) and 48, 49, 50
\* the action parser (4-byte Actmsg). parse() on such a message with fewer
\* bytes after the netlink header than the fixed header raises ValueError and
\* sets neither data_hdr nor root; with enough bytes the fixed header is
\* decoded, a root that is set holds exactly the bytes after the fixed
\* header, and parse() returns without a root only when no byte follows it.
C11_TypedHeader ==
    /\ \A t \in {44, 45, 46} : msg_map(t) = "TcNetlinkMessage"
    /\ \A t \in {48, 49, 50} : msg_map(t) = "ActNetlinkMessage"
    /\ (origin = "msg" /\ m_obj.nl_hdr.nlmsg_type \in DispatcherTypes) =>
         LET body == Len(m_obj.orig_data) - 16
             size == FixedHeaderSize(m_obj.cls)
         IN /\ m_obj.cls = msg_map(m_obj.nl_hdr.nlmsg_type)
            /\ (mpc # "init" /\ body < size) =>
                 /\ mpc = "ValueError"
                 /\ data_hdr = NoDataHdr
                 /\ root = NoMsg
                 /\ ppc = "init"
            /\ (mpc # "init" /\ body >= size) =>
                 /\ hdr_off = size
                 /\ data_hdr = IF m_obj.cls = "TcNetlinkMessage"
                               THEN Tcmsg(SliceFrom(m_obj.orig_data, 16))
                               ELSE Actmsg(SliceFrom(m_obj.orig_data, 16))
                 /\ root # NoMsg =>
                      /\ mpc = "returned"
                      /\ root.data = SliceFrom(m_obj.orig_data, 16 + size)
                 /\ (mpc = "returned" /\ root = NoMsg) => body = size

\* C11 witness: parse() raised on a type-44 message that carries 12 bytes
\* after the netlink header, fewer than a Tcmsg.
C11_Witness ==
    /\ origin = "msg" /\ mpc = "ValueError"
    /\ m_obj.nl_hdr.nlmsg_type = 44
    /\ Len(m_obj.orig_data) = 16 + 12

\* C12: with type 1 registered as a nested array whose child registry maps
\* type 1 to a string, parsing a type-1 attribute that holds two siblings
\* wrapping the type-1 strings "foo" and "bar" returns, and its one element
\* is a sequence of 2 trees whose type-1 values are "foo" and "bar".
C12_NestedArray ==
    (origin = "nested" /\ attr_map = NestedArrayMap
     /\ nla_data = NestedBuffer(<<Foo, Bar>>)
     /\ ppc \notin {"init", "loop"}) =>
        /\ ppc = "returned"
        /\ Len(nla_list) = 1
        /\ nla_list[1].kind = "array"
        /\ Len(nla_list[1].elems) = 2
        /\ nla_list[1].elems[1].nla_list[1] = [kind |-> "decoded", nla_type |-> 1, val |-> Foo]
        /\ nla_list[1].elems[2].nla_list[1] = [kind |-> "decoded", nla_type |-> 1, val |-> Bar]

\* ------------------------------------------------------------------------
\* Transport errors (checked under Spec)
\* ------------------------------------------------------------------------
\* C13: a failed receive ends the call with the error at the caller and the
\* reassembler at rest; the buffer then holds exactly the bytes received and
\* not yet extracted, as before the failed receive; and every message that
\* read_message returns afterwards is the one the stream yields without
\* any failure.
C13_FailureTransparent ==
    /\ result.kind = "TransportError" =>
         /\ pc = "idle"
         /\ Concat(extracted) \o sock_data = SubSeq(stream, 1, rcvd)
    /\ retrying =>
         /\ Concat(extracted) \o sock_data = SubSeq(stream, 1, rcvd)
         /\ out = OneReceive(stream, Len(out))

\* C13 witness: a receive failed while the buffer held part of the second
\* message, and the next read_message call returned that message.
C13_Witness ==
    /\ retrying /\ pc = "idle" /\ mode = "message"
    /\ result.kind = "msg"
    /\ Len(out) = 2 /\ ~had_complete /\ recvs > 0
    /\ sock_data = <<>>
    /\ result.orig_data = sent[2]

\* the raw bytes `raw` stand somewhere in the accumulation buffer
HeldInBuffer(raw) ==
    \E k \in 0..(Len(sock_data) - Len(raw)) : Slice(sock_data, k, k + Len(raw)) = raw

\* the result handed to the caller holds a message built from `raw`
HeldInResult(raw) ==
    \/ result.kind = "msg" /\ result.orig_data = raw
    \/ /\ result.kind = "dump"
       /\ \E j \in 1..Len(result.msgs) : result.msgs[j].orig_data = raw

\* C14: when read_dump has ended with a transport error, every message it
\* had extracted before the error is still in the accumulation buffer or in
\* a result handed to the caller.
C14_DumpRetrySafe ==
    (pc = "idle" /\ mode = "dump" /\ result.kind = "TransportError") =>
        \A i \in (dump_from + 1)..Len(extracted) :
            HeldInBuffer(extracted[i]) \/ HeldInResult(extracted[i])

\* ------------------------------------------------------------------------
\* Encoding of large payloads (checked under SpecAttr)
\* ------------------------------------------------------------------------
\* C15: bytes() of an attribute whose payload is longer than 65531 bytes
\* raises an error and gives no bytes; for a payload of at most 65531 bytes
\* it gives the padded TLV whose length field is the payload length plus 4,
\* so the length field never holds a wrapped or truncated value.
C15_SizeOverflow ==
    (origin = "big" /\ enc_out # NoMsg) =>
        LET L == pairs[1].len IN
          /\ L > 65531 => enc_out = [kind |-> "struct.error", size |-> 0]
          /\ L <= 65531 =>
               /\ enc_out.kind = "bytes"
               /\ enc_out.nla_len = L + 4
               /\ enc_out.nla_type = pairs[1].type
               /\ enc_out.size = SmallestMult4(L + 4)

\* C15 witness: bytes() was called on a payload of 65532 bytes and raised.
C15_Witness ==
    /\ origin = "big" /\ pairs[1].len = 65532
    /\ enc_out.kind = "struct.error"

\* ------------------------------------------------------------------------
\* Progress and bounds of the walk (checked under SpecAttr)
\* ------------------------------------------------------------------------
\* the offset the walk had after the i-th stored attribute
OffAfter(i) == IF i < Len(p_offs) THEN p_offs[i + 1] ELSE p_off

\* C16: every iteration of the walk that stores an attribute moves the
\* offset forward by at least 4 bytes, whatever nla_len it read (0, 1, 2
\* and 3 included), so the walk stores at most len(buffer) / 4 attributes.
C16_Termination ==
    /\ \A i \in 1..Len(p_offs) : OffAfter(i) >= p_offs[i] + 4
    /\ 4 * Len(p_ret) <= Len(nla_data)

\* C17: the offset of the walk never passes the end of the buffer: for
\* every stored attribute, its offset plus its aligned length is at most
\* len(data), also for a last attribute whose length is not a multiple of 4
\* and that has no padding after it.
C17_OffsetInBuffer ==
    /\ p_off <= Len(nla_data)
    /\ \A i \in 1..Len(p_offs) :
         p_offs[i] + align4(U16(nla_data, p_offs[i])) <= Len(nla_data)

\* ------------------------------------------------------------------------
\* Framing of returned messages (checked under Spec)
\* ------------------------------------------------------------------------
\* the length declared by the header that stood at the front of the buffer
\* when the i-th slice was cut
DeclaredAt(i) == U32(stream, Len(Concat(SubSeq(extracted, 1, i - 1))))

\* C18: every message read_message has returned holds exactly the
\* nlmsg_len bytes its header declares, with nlmsg_len >= 16; a header that
\* declares fewer than 16 bytes made the call fail with ValueError and no
\* message was returned for it; and the slice is only cut when the buffer
\* holds at least the declared number of bytes.
C18_MessageFraming ==
    /\ \A i \in 1..Len(out) :
         /\ out[i].kind = "msg" =>
              /\ Len(out[i].orig_data) = out[i].nl_hdr.nlmsg_len
              /\ out[i].nl_hdr.nlmsg_len = DeclaredAt(i)
              /\ out[i].nl_hdr.nlmsg_len >= 16
              /\ out[i].orig_data = extracted[i]
         /\ (DeclaredAt(i) < 16) = (out[i].kind = "ValueError")
    /\ pc = "l280" =>
         /\ hdr = Nlmsghdr(sock_data)
         /\ hdr.nlmsg_len <= Len(sock_data)
    /\ (pc = "idle" /\ result.kind = "msg") =>
         /\ result = out[Len(out)]
         /\ Len(result.orig_data) + Len(sock_data) <= rcvd

\* C18 witness: the first call returned a 20-byte message and the second
\* call failed on a header declaring 8 bytes.
C18_Witness ==
    /\ pc = "idle" /\ result.kind = "ValueError"
    /\ Len(out) = 2
    /\ out[1].kind = "msg" /\ Len(out[1].orig_data) = 20
    /\ DeclaredAt(2) = 8

\* C20: when read_dump returns, the last slice it cut is the first type-3
\* message after the point where the dump started, the buffer holds exactly
\* the bytes received after the end of that message, and a read_message
\* that follows on a well-formed stream cuts the message sent after it.
C20_DumpFrame ==
    (pc = "idle" /\ result.kind = "dump") =>
        LET n    == Len(extracted)
            e    == Len(Concat(extracted))
            rest == sock_data \o SubSeq(stream, rcvd + 1, Len(stream))
        IN /\ n > dump_from
           /\ TypeOfWire(extracted[n]) = NLMSG_DONE
           /\ \A i \in (dump_from + 1)..(n - 1) : TypeOfWire(extracted[i]) # NLMSG_DONE
           /\ sock_data = SubSeq(stream, e + 1, rcvd)
           /\ (AllWellFormed /\ n < Len(sent)) =>
                /\ HoldsComplete(rest)
                /\ raw_msg_of(rest, Nlmsghdr(rest)) = sent[n + 1]

\* C20 witness: read_dump returned one message while the buffer already
\* held the whole message sent after the DONE message.
C20_Witness ==
    /\ pc = "idle" /\ result.kind = "dump"
    /\ Len(result.msgs) = 1
    /\ AllWellFormed /\ Len(sent) = 3
    /\ sock_data = sent[3]

\* ------------------------------------------------------------------------
\* Progress of read_message (checked under SpecLive)
\* ------------------------------------------------------------------------
\* the buffer and the bytes the transport has still to deliver
Pending == sock_data \o SubSeq(stream, rcvd + 1, Len(stream))

\* the message at the front declares at least a header and all its bytes
\* are buffered or still to be delivered
FrontDeliverable ==
    /\ HoldsComplete(Pending)
    /\ Nlmsghdr(Pending).nlmsg_len >= SizeofNlmsghdr

\* C19: read_message receives only while the buffer holds fewer than 16
\* bytes (awaiting the header) or fewer bytes than the header declares
\* (awaiting the body) and reaches its return only when neither holds; and
\* a call whose front message is delivered in full by the transport,
\* however it is split over receives, eventually returns a message.
C19_EventualReturn ==
    /\ [](pc = "l270h" => Len(sock_data) < 16)
    /\ [](pc = "l270b" => (Len(sock_data) >= 16 /\ hdr.nlmsg_len > Len(sock_data)))
    /\ [](pc = "l280" => (Len(sock_data) >= 16 /\ hdr.nlmsg_len <= Len(sock_data)))
    /\ (pc = "l275" /\ FrontDeliverable)
          ~> (pc = "idle" /\ result.kind = "msg")

\* C19 witness: a read_message that found no complete message in the
\* buffer returned the second message of the stream after two receives or
\* more.
C19_Witness ==
    /\ pc = "idle" /\ mode = "message" /\ result.kind = "msg"
    /\ ~had_complete /\ recvs = 2
    /\ Len(out) = 2 /\ result.orig_data = sent[2]

====
